---- MODULE Spec2Model ----
(***************************************************************************)
(* PDF Study Assistant: the Streamlit session (app.py), the PDF loader     *)
(* (pdf_loader.py), the document embedder with its on-disk persistence     *)
(* (embedder.py) and the three generation chains (rag_pipeline.py).        *)
(*                                                                         *)
(* Python strings are sequences of one-character strings when the code     *)
(* looks inside them (document names, page texts) and sequences of pieces  *)
(* when it only concatenates them (messages).                               *)
(***************************************************************************)
EXTENDS Integers, Sequences, FiniteSets, TLC

VARIABLES
    pdf_docs,        \* st.session_state.pdf_docs: name -> pages
    vector_stores,   \* st.session_state.vector_stores: name -> index
    current_pdf,     \* st.session_state.current_pdf
    preview_text,    \* st.session_state.preview_text
    embedder,        \* st.session_state.embedder (a DocumentEmbedder)
    disk,            \* the files below the working directory: path -> blob
    saved_as,        \* history: name -> the index save_vector_store(name) last returned normally for
    last             \* the call in progress: its arguments and what it gave back

vars == <<pdf_docs, vector_stores, current_pdf, preview_text, embedder, disk, saved_as, last>>

-----------------------------------------------------------------------------
(* Bounds of the model *)

MaxNameLen == 3
MaxBatch == 2
MaxChunkSize == 3

(* Constants of the program *)

DefaultChunkSize == 1000
DefaultChunkOverlap == 200
KAnswer == 5
KSummary == 10
KNotes == 15
PreviewPages == 3
PreviewChars == 500

-----------------------------------------------------------------------------
(* Values *)

\* Python's None where a document name is expected (no document is named "").
None == <<>>

\* Python's None where a vector store is expected.
NoStore == [store |-> "None", docs |-> <<>>]

NoCall == [op |-> "none"]

EmptyMap == [x \in {} |-> x]

Put(f, k, v) == [x \in DOMAIN f \cup {k} |-> IF x = k THEN v ELSE f[x]]

Min(a, b) == IF a < b THEN a ELSE b

Take(s, n) == SubSeq(s, 1, Min(n, Len(s)))

\* The characters document names are made of; str.isalnum() holds of the first three.
AlnumChars == {"a", "Z", "1"}
OtherChars == {".", "/", "_", " "}
Alphabet == AlnumChars \cup OtherChars

isalnum(c) == c \in AlnumChars

\* Every non-empty name of at most MaxNameLen characters.
AllNames == UNION {[1..n -> Alphabet] : n \in 1..MaxNameLen}

\* The names uploaded in a session: two that differ in one non-alphanumeric
\* character, and an unrelated one.
DocNames == {<<"a", ".", "a">>, <<"a", "_", "a">>, <<"Z", "1">>}

\* The pages of a second version of a document.
RevisedTexts == << <<"c">> >>

\* What an uploaded file holds: bytes PyMuPDF cannot open, or the text of each page.
FileContents ==
    { [parsable |-> FALSE, texts |-> <<>>],
      [parsable |-> TRUE,  texts |-> << <<>> >>],
      [parsable |-> TRUE,  texts |-> << <<"a", "b">>, <<>> >>],
      [parsable |-> TRUE,  texts |-> RevisedTexts] }

\* What the environment does to the ingestion of one file: the embedding model is
\* unreachable, or the disk write fails.
Faults == {"none", "embed", "save"}

-----------------------------------------------------------------------------
(* pdf_loader.py *)

\* PDFLoader.load_pdf: one Document per page, or the exception of line 59.
load_pdf(pdf_file) ==
    LET texts == pdf_file.content.texts
        n == Len(texts)
    IN  IF ~pdf_file.content.parsable
        THEN [raised |-> TRUE, documents |-> <<>>]
        ELSE [raised |-> FALSE,
              documents |-> [i \in 1..n |->
                  [page_content |-> texts[i],
                   metadata |-> [source |-> pdf_file.name, page |-> i, total_pages |-> n]]]]

-----------------------------------------------------------------------------
(* embedder.py *)

\* str.lower() on the vector store types of the model, which are in lower case.
lower(s) == s

\* The vector store types DocumentEmbedder documents ("faiss" or "chroma").
VectorStoreTypes == {"faiss", "chroma"}

\* The text splitter's removal of the oldest pieces of the chunk just emitted,
\* until what is kept fits the overlap and leaves room for the next piece.
RECURSIVE PopFront(_, _, _)
PopFront(current, chunk_size, chunk_overlap) ==
    IF Len(current) > chunk_overlap \/ (Len(current) + 1 > chunk_size /\ Len(current) > 0)
    THEN PopFront(Tail(current), chunk_size, chunk_overlap)
    ELSE current

\* RecursiveCharacterTextSplitter on a text with no separator in it: the text is
\* cut into characters, which are merged into chunks of at most chunk_size.
RECURSIVE MergeSplits(_, _, _, _, _)
MergeSplits(text, i, current, chunk_size, chunk_overlap) ==
    IF i > Len(text)
    THEN IF current = <<>> THEN <<>> ELSE <<current>>
    ELSE IF Len(current) + 1 > chunk_size /\ current # <<>>
         THEN <<current>> \o MergeSplits(text, i + 1,
                  Append(PopFront(current, chunk_size, chunk_overlap), text[i]),
                  chunk_size, chunk_overlap)
         ELSE MergeSplits(text, i + 1, Append(current, text[i]), chunk_size, chunk_overlap)

\* The splitter's constructor, called by DocumentEmbedder.__init__: it refuses an
\* overlap larger than the chunk size, and nothing else.
SplitterRejects(chunk_size, chunk_overlap) == chunk_overlap > chunk_size

\* DocumentEmbedder.__init__
NewEmbedder(chunk_size, chunk_overlap, vector_store_type) ==
    IF SplitterRejects(chunk_size, chunk_overlap)
    THEN [raised |-> TRUE,
          embedder |-> [constructed |-> FALSE, chunk_size |-> 0, chunk_overlap |-> 0,
                        vector_store_type |-> "", vector_store |-> NoStore]]
    ELSE [raised |-> FALSE,
          embedder |-> [constructed |-> TRUE, chunk_size |-> chunk_size,
                        chunk_overlap |-> chunk_overlap,
                        vector_store_type |-> vector_store_type,
                        vector_store |-> NoStore]]

\* DocumentEmbedder.process_documents: split_documents, each chunk with a copy of
\* its page's metadata.
RECURSIVE process_documents(_, _)
process_documents(self, documents) ==
    IF documents = <<>> THEN <<>>
    ELSE LET page == Head(documents)
             pieces == MergeSplits(page.page_content, 1, <<>>, self.chunk_size, self.chunk_overlap)
         IN  [j \in 1..Len(pieces) |-> [page_content |-> pieces[j], metadata |-> page.metadata]]
             \o process_documents(self, Tail(documents))

\* DocumentEmbedder.create_vector_store. from_documents embeds the chunks, which
\* fails when the embedding model does, and builds the store from the
\* embeddings, which fails when there is none (FAISS reads the dimension off
\* the first one, Chroma refuses an empty insertion).
create_vector_store(self, documents, fault) ==
    LET chunks == process_documents(self, documents)
        type == lower(self.vector_store_type)
        failed == [raised |-> TRUE, self |-> self, value |-> NoStore]
        built(vs) == [raised |-> FALSE, self |-> [self EXCEPT !.vector_store = vs], value |-> vs]
    IN  IF type = "faiss"
        THEN IF fault = "embed" \/ chunks = <<>> THEN failed
             ELSE built([store |-> "faiss", docs |-> chunks])
        ELSE IF type = "chroma"
        THEN IF fault = "embed" \/ chunks = <<>> THEN failed
             ELSE built([store |-> "chroma", docs |-> chunks])
        ELSE failed

\* The "safe filename" of save_vector_store.
SaveSafeName(pdf_name) ==
    [i \in 1..Len(pdf_name) |-> IF isalnum(pdf_name[i]) THEN pdf_name[i] ELSE "_"]

\* load_vector_store keeping the dots of the name (so that "a.pdf" stays readable).
LoadSafeNameKeepsDots(pdf_name) ==
    [i \in 1..Len(pdf_name) |->
        IF isalnum(pdf_name[i]) \/ pdf_name[i] = "." THEN pdf_name[i] ELSE "_"]

\* The "safe filename" of load_vector_store.
LoadSafeName(pdf_name) ==
    [i \in 1..Len(pdf_name) |-> IF isalnum(pdf_name[i]) THEN pdf_name[i] ELSE "_"]

\* os.path.join of a directory and one more component: an absolute component
\* replaces what precedes it.
PathJoin(dir, name) ==
    IF name # <<>> /\ name[1] = "/" THEN name ELSE dir \o <<"/">> \o name

EmbeddingsDir == <<"embeddings">>

SavePath(pdf_name) == PathJoin(EmbeddingsDir, SaveSafeName(pdf_name))

LoadPath(pdf_name) == PathJoin(EmbeddingsDir, LoadSafeName(pdf_name))

\* FAISS.save_local: the vectors (index.faiss) and the chunks (index.pkl).
SaveLocal(vs) == [index_faiss |-> Len(vs.docs), index_pkl |-> vs.docs]

\* FAISS.load_local
LoadLocal(blob) == [store |-> "faiss", docs |-> blob.index_pkl]

\* DocumentEmbedder.save_vector_store
save_vector_store(self, files, pdf_name, fault) ==
    IF self.vector_store = NoStore
    THEN [raised |-> TRUE, files |-> files]
    ELSE IF lower(self.vector_store_type) = "faiss"
         THEN IF fault = "save"
              THEN [raised |-> TRUE, files |-> files]
              ELSE [raised |-> FALSE,
                    files |-> Put(files, SavePath(pdf_name), SaveLocal(self.vector_store))]
         ELSE [raised |-> FALSE, files |-> files]

\* DocumentEmbedder.load_vector_store
load_vector_store(self, files, pdf_name) ==
    IF LoadPath(pdf_name) \in DOMAIN files /\ lower(self.vector_store_type) = "faiss"
    THEN LET vs == LoadLocal(files[LoadPath(pdf_name)])
         IN  [self |-> [self EXCEPT !.vector_store = vs], value |-> vs]
    ELSE [self |-> self, value |-> NoStore]

-----------------------------------------------------------------------------
(* rag_pipeline.py *)

\* A Python str handed to a chain, and a dict of one entry handed to a chain.
Str(text) == [type |-> "str", key |-> "", value |-> text]
Dict(k, text) == [type |-> "dict", key |-> k, value |-> text]

\* What the user may type, what the backend may generate, and what str(e) may be,
\* each a sequence of pieces ("" is the empty sequence).
Questions == {<<"What does it produce?">>, <<"summarize">>}
GenTexts == {<<>>, <<"ATP">>}
ErrMsgs == {<<>>, <<"timeout">>}

\* What the environment does to one chain invocation: the retrieval fails (the
\* embedding of the query, the search), the generation backend fails, or neither.
Outcomes ==
    {[stage |-> st, text |-> m] : st \in {"retrieval", "generation"}, m \in ErrMsgs}
    \cup {[stage |-> "ok", text |-> t] : t \in GenTexts}

\* RAGPipeline.create_qa_chain: {"context": retriever, "question":
\* RunnablePassthrough()} | qa_prompt | llm | StrOutputParser()
create_qa_chain(retriever) ==
    [context |-> retriever, passthrough |-> TRUE, prompt |-> "qa_prompt"]

\* RAGPipeline.create_summary_chain: {"context": retriever} | summary_prompt | ...
create_summary_chain(retriever) ==
    [context |-> retriever, passthrough |-> FALSE, prompt |-> "summary_prompt"]

\* RAGPipeline.create_notes_chain: {"context": retriever} | notes_prompt | ...
create_notes_chain(retriever) ==
    [context |-> retriever, passthrough |-> FALSE, prompt |-> "notes_prompt"]

\* chain.invoke(input): every entry of the leading dict is invoked with the
\* chain's input, so the retriever is queried with the input as it is; then the
\* prompt is filled and the backend called. Whether the retrieval goes through
\* is the environment's: the embedding model may be unreachable, and one that
\* takes text only fails on an input that is a dict.
Invoke(chain, input, env) ==
    LET retrieval == [vectorstore |-> chain.context.vectorstore,
                      search_type |-> chain.context.search_type,
                      k |-> chain.context.k,
                      query |-> input]
    IN  IF env.stage = "retrieval"
        THEN [raised |-> TRUE, value |-> env.text, retrievals |-> <<retrieval>>,
              invoked |-> TRUE, generated |-> FALSE]
        ELSE IF env.stage = "generation"
        THEN [raised |-> TRUE, value |-> env.text, retrievals |-> <<retrieval>>,
              invoked |-> TRUE, generated |-> FALSE]
        ELSE [raised |-> FALSE, value |-> env.text, retrievals |-> <<retrieval>>,
              invoked |-> TRUE, generated |-> TRUE]

-----------------------------------------------------------------------------
(* app.py *)

\* init_session_state: the embedder of lines 41-44, with the defaults of
\* DocumentEmbedder.__init__ for the chunking.
SessionEmbedder == NewEmbedder(DefaultChunkSize, DefaultChunkOverlap, "faiss").embedder

Init ==
    /\ pdf_docs = EmptyMap
    /\ vector_stores = EmptyMap
    /\ current_pdf = None
    /\ preview_text = <<>>
    /\ embedder = SessionEmbedder
    /\ disk = EmptyMap
    /\ saved_as = EmptyMap
    /\ last = NoCall

\* The files a user may put in the uploader, each with what the environment does
\* while it is ingested (a fault only where the ingestion gets that far); the
\* second version is a fault-free upload of "Z1".
Uploads ==
    {u \in [name : DocNames, content : FileContents, fault : Faults] :
        /\ (~u.content.parsable \/ \A i \in 1..Len(u.content.texts) : u.content.texts[i] = <<>>)
              => u.fault = "none"
        /\ u.content.texts = RevisedTexts => u.fault = "none" /\ u.name = <<"Z", "1">>}

\* The order in which the uploader lists the files of one batch.
UploadOrder == << <<"a", ".", "a">>, <<"a", "_", "a">>, <<"Z", "1">> >>

Rank(name) ==
    CHOOSE i \in 1..Len(UploadOrder) : UploadOrder[i] = name

\* What the uploader hands to load_pdfs: up to MaxBatch files, one per name, in
\* the order of the uploader (files in another order arrive as successive batches).
Batches ==
    {b \in UNION {[1..n -> Uploads] : n \in 1..MaxBatch} :
        \A i, j \in 1..Len(b) : i < j => Rank(b[i].name) < Rank(b[j].name)}

\* The try block of load_pdfs for one file, on the session s (with the messages
\* shown so far in s.reports).
Ingest(s, u) ==
    LET success == [kind |-> "success", name |-> u.name]
        error == [kind |-> "error", name |-> u.name]
        lp == load_pdf([name |-> u.name, content |-> u.content])
    IN  IF lp.raised THEN [s EXCEPT !.reports = Append(@, error)]
        ELSE LET s1 == [s EXCEPT !.pdf_docs = Put(@, u.name, lp.documents)]
                 cv == create_vector_store(s1.embedder, lp.documents, u.fault)
             IN
        IF cv.raised THEN [s1 EXCEPT !.embedder = cv.self, !.reports = Append(@, error)]
        ELSE LET s2 == [s1 EXCEPT !.embedder = cv.self,
                                  !.vector_stores = Put(@, u.name, cv.value)]
                 sv == save_vector_store(s2.embedder, s2.disk, u.name, u.fault)
             IN
        IF sv.raised THEN [s2 EXCEPT !.reports = Append(@, error)]
        ELSE [s2 EXCEPT !.disk = sv.files,
                        !.saved_as = Put(@, u.name, s2.embedder.vector_store),
                        !.reports = Append(@, success)]

\* One turn of the loop that ingests the file whatever its name.
LoadOneOverwrites(s, u) ==
    Ingest(s, u)

\* One turn of the loop of load_pdfs: a file whose name is a key of pdf_docs is
\* passed over.
LoadOne(s, u) ==
    IF u.name \in DOMAIN s.pdf_docs THEN s ELSE Ingest(s, u)

\* load_pdfs with the try around the loop instead of inside it: the first failure
\* ends the batch.
RECURSIVE LoadBatchStopsAtError(_, _, _)
LoadBatchStopsAtError(s, uploaded_files, i) ==
    IF i > Len(uploaded_files) THEN s
    ELSE LET t == LoadOne(s, uploaded_files[i])
         IN  IF Len(t.reports) > Len(s.reports) /\ t.reports[Len(t.reports)].kind = "error"
             THEN t
             ELSE LoadBatchStopsAtError(t, uploaded_files, i + 1)

\* The loop of load_pdfs, from the i-th file on.
RECURSIVE LoadBatch(_, _, _)
LoadBatch(s, uploaded_files, i) ==
    IF i > Len(uploaded_files) THEN s
    ELSE LoadBatch(LoadOne(s, uploaded_files[i]), uploaded_files, i + 1)

\* Whether a file goes through every step of the ingestion when it is tried.
Sound(u) ==
    /\ u.content.parsable
    /\ \E i \in 1..Len(u.content.texts) : u.content.texts[i] # <<>>
    /\ u.fault = "none"

\* load_pdfs(uploaded_files)
LoadPdfs(uploaded_files) ==
    /\ last = NoCall
    /\ LET s == LoadBatch([pdf_docs |-> pdf_docs, vector_stores |-> vector_stores,
                           embedder |-> embedder, disk |-> disk, saved_as |-> saved_as,
                           reports |-> <<>>], uploaded_files, 1)
       IN  /\ pdf_docs' = s.pdf_docs
           /\ vector_stores' = s.vector_stores
           /\ embedder' = s.embedder
           /\ disk' = s.disk
           /\ saved_as' = s.saved_as
           /\ last' = [op |-> "load_pdfs",
                       files |-> [i \in 1..Len(uploaded_files) |->
                                    [name |-> uploaded_files[i].name,
                                     sound |-> Sound(uploaded_files[i]),
                                     texts |-> uploaded_files[i].content.texts]],
                       before |-> DOMAIN pdf_docs,
                       indexed |-> DOMAIN vector_stores,
                       reports |-> s.reports]
    /\ UNCHANGED <<current_pdf, preview_text>>

\* The preview of a stored document: its first pages, each cut to its first
\* characters.
Preview(documents) ==
    LET preview_pages == Min(PreviewPages, Len(documents))
    IN  [i \in 1..preview_pages |->
            [page |-> documents[i].metadata.page,
             text |-> Take(documents[i].page_content, PreviewChars)]]

\* update_preview that selects the name before looking it up.
update_preview_unguarded(pdf_name) ==
    [preview_text |-> IF pdf_name \in DOMAIN pdf_docs
                      THEN Preview(pdf_docs[pdf_name]) ELSE preview_text,
     current_pdf |-> pdf_name]

\* update_preview(pdf_name): the preview text and the selection it leaves in the
\* session state.
update_preview(pdf_name) ==
    IF pdf_name \in DOMAIN pdf_docs
    THEN [preview_text |-> Preview(pdf_docs[pdf_name]), current_pdf |-> pdf_name]
    ELSE [preview_text |-> preview_text, current_pdf |-> current_pdf]

UpdatePreview(pdf_name) ==
    /\ last = NoCall
    /\ preview_text' = update_preview(pdf_name).preview_text
    /\ current_pdf' = update_preview(pdf_name).current_pdf
    /\ last' = [op |-> "update_preview", pdf_name |-> pdf_name]
    /\ UNCHANGED <<pdf_docs, vector_stores, embedder, disk, saved_as>>

\* main, "Select PDF": the select box over the keys of pdf_docs, shown when there
\* is at least one; its default index is looked up with list.index, which raises
\* ValueError for a value that is not in the list and ends the script run.
SelectPdf(selected_pdf) ==
    /\ last = NoCall
    /\ LET pdf_options == DOMAIN pdf_docs
           raised == current_pdf # None /\ current_pdf \notin pdf_options
       IN  /\ pdf_options # {}
           /\ IF raised
              THEN /\ UNCHANGED <<current_pdf, preview_text>>
                   /\ last' = [op |-> "select_pdf", raised |-> TRUE,
                               selected_pdf |-> None]
              ELSE /\ selected_pdf \in pdf_options
                   /\ IF selected_pdf # current_pdf
                      THEN /\ preview_text' = update_preview(selected_pdf).preview_text
                           /\ current_pdf' = update_preview(selected_pdf).current_pdf
                      ELSE UNCHANGED <<current_pdf, preview_text>>
                   /\ last' = [op |-> "select_pdf", raised |-> FALSE,
                               selected_pdf |-> selected_pdf]
    /\ UNCHANGED <<pdf_docs, vector_stores, embedder, disk, saved_as>>

\* vector_store.as_retriever(search_type=..., search_kwargs={"k": ...})
as_retriever(vector_store, search_type, k) ==
    [vectorstore |-> vector_store, search_type |-> search_type, k |-> k]

Guidance == <<"Please select a PDF first.">>
ErrQuery == <<"Error processing query: ">>
ErrSummary == <<"Error generating summary: ">>
ErrNotes == <<"Error generating notes: ">>

\* What a query operation gives back without touching a chain.
Returned(text) ==
    [raised |-> FALSE, value |-> text, retrievals |-> <<>>, invoked |-> FALSE,
     generated |-> FALSE]

\* A query operation without its try/except: the exception reaches the caller.
CatchNothing(outcome, prefix) == outcome

\* except Exception as e: return f"<prefix>{str(e)}"
Catch(outcome, prefix) ==
    IF outcome.raised
    THEN [outcome EXCEPT !.raised = FALSE, !.value = prefix \o outcome.value]
    ELSE outcome

\* process_query(query, pdf_name)
process_query(query, pdf_name, env) ==
    IF pdf_name \notin DOMAIN vector_stores THEN Returned(Guidance)
    ELSE LET vector_store == vector_stores[pdf_name]
             retriever == as_retriever(vector_store, "mmr", KAnswer)
             qa_chain == create_qa_chain(retriever)
         IN  Catch(Invoke(qa_chain, Str(query), env), ErrQuery)

\* generate_summary with the retriever of process_query copied unchanged (k = 5).
generate_summary_k_of_answer(pdf_name, env) ==
    IF pdf_name \notin DOMAIN vector_stores THEN Returned(Guidance)
    ELSE LET vector_store == vector_stores[pdf_name]
             retriever == as_retriever(vector_store, "mmr", KAnswer)
             summary_chain == create_summary_chain(retriever)
         IN  Catch(Invoke(summary_chain, Dict("query", <<"summarize">>), env), ErrSummary)

\* generate_summary(pdf_name)
generate_summary(pdf_name, env) ==
    IF pdf_name \notin DOMAIN vector_stores THEN Returned(Guidance)
    ELSE LET vector_store == vector_stores[pdf_name]
             retriever == as_retriever(vector_store, "mmr", KSummary)
             summary_chain == create_summary_chain(retriever)
         IN  Catch(Invoke(summary_chain, Dict("query", <<"summarize">>), env), ErrSummary)

\* generate_notes without its first two lines: the lookup of the missing name
\* raises KeyError inside the try.
generate_notes_unguarded(pdf_name, env) ==
    IF pdf_name \notin DOMAIN vector_stores
    THEN Catch([raised |-> TRUE, value |-> <<"KeyError">>, retrievals |-> <<>>,
                invoked |-> FALSE, generated |-> FALSE], ErrNotes)
    ELSE LET vector_store == vector_stores[pdf_name]
             retriever == as_retriever(vector_store, "mmr", KNotes)
             notes_chain == create_notes_chain(retriever)
         IN  Catch(Invoke(notes_chain, Dict("query", <<"generate notes">>), env), ErrNotes)

\* generate_notes(pdf_name)
generate_notes(pdf_name, env) ==
    IF pdf_name \notin DOMAIN vector_stores THEN Returned(Guidance)
    ELSE LET vector_store == vector_stores[pdf_name]
             retriever == as_retriever(vector_store, "mmr", KNotes)
             notes_chain == create_notes_chain(retriever)
         IN  Catch(Invoke(notes_chain, Dict("query", <<"generate notes">>), env), ErrNotes)

\* A call of one of the three query operations: the session is left as it is.
QueryCall(op, query, pdf_name, env, call) ==
    /\ last = NoCall
    /\ last' = [op |-> op, pdf_name |-> pdf_name, query |-> query, env |-> env,
                had_index |-> pdf_name \in DOMAIN vector_stores, call |-> call]
    /\ UNCHANGED <<pdf_docs, vector_stores, current_pdf, preview_text, embedder, disk, saved_as>>

ProcessQuery(query, pdf_name, env) ==
    QueryCall("process_query", query, pdf_name, env, process_query(query, pdf_name, env))

GenerateSummary(pdf_name, env) ==
    QueryCall("generate_summary", <<>>, pdf_name, env, generate_summary(pdf_name, env))

GenerateNotes(pdf_name, env) ==
    QueryCall("generate_notes", <<>>, pdf_name, env, generate_notes(pdf_name, env))

\* The call is over: its result has been shown and the script waits for the next
\* interaction.
Return ==
    /\ last # NoCall
    /\ last' = NoCall
    /\ UNCHANGED <<pdf_docs, vector_stores, current_pdf, preview_text, embedder, disk, saved_as>>

Next ==
    \/ \E uploaded_files \in Batches : LoadPdfs(uploaded_files)
    \/ \E pdf_name \in DocNames : UpdatePreview(pdf_name)
    \/ \E selected_pdf \in DocNames : SelectPdf(selected_pdf)
    \/ \E query \in Questions, pdf_name \in DocNames, env \in Outcomes :
           ProcessQuery(query, pdf_name, env)
    \/ \E pdf_name \in DocNames, env \in Outcomes : GenerateSummary(pdf_name, env)
    \/ \E pdf_name \in DocNames, env \in Outcomes : GenerateNotes(pdf_name, env)
    \/ Return

Spec == Init /\ [][Next]_vars

-----------------------------------------------------------------------------
(* DocumentEmbedder on its own: constructed with any configuration, then its   *)
(* methods called in any order.                                               *)

Unconstructed == NewEmbedder(0, 1, "").embedder

\* The page lists handed to the embedder: a page that needs splitting, a page
\* with no text, and two pages of which one has text.
SampleDocuments ==
    {load_pdf([name |-> <<"Z", "1">>, content |-> c]).documents :
        c \in {[parsable |-> TRUE, texts |-> << <<"a", "b", "c", "d">> >>],
               [parsable |-> TRUE, texts |-> << <<>> >>],
               [parsable |-> TRUE, texts |-> << <<"a", "b">>, <<>> >>]}}

EmbedderInit ==
    /\ pdf_docs = EmptyMap
    /\ vector_stores = EmptyMap
    /\ current_pdf = None
    /\ preview_text = <<>>
    /\ embedder = Unconstructed
    /\ disk = EmptyMap
    /\ saved_as = EmptyMap
    /\ last = NoCall

\* DocumentEmbedder(chunk_size=..., chunk_overlap=..., vector_store_type=...)
Construct(chunk_size, chunk_overlap, vector_store_type) ==
    /\ last = NoCall
    /\ ~embedder.constructed
    /\ LET r == NewEmbedder(chunk_size, chunk_overlap, vector_store_type)
       IN  /\ embedder' = r.embedder
           /\ last' = [op |-> "__init__", chunk_size |-> chunk_size,
                       chunk_overlap |-> chunk_overlap, raised |-> r.raised]
    /\ UNCHANGED <<pdf_docs, vector_stores, current_pdf, preview_text, disk, saved_as>>

\* embedder.process_documents(documents)
ProcessDocuments(documents) ==
    /\ last = NoCall
    /\ embedder.constructed
    /\ last' = [op |-> "process_documents", chunks |-> process_documents(embedder, documents)]
    /\ UNCHANGED <<pdf_docs, vector_stores, current_pdf, preview_text, embedder, disk, saved_as>>

\* embedder.create_vector_store(documents)
CreateVectorStore(documents, fault) ==
    /\ last = NoCall
    /\ embedder.constructed
    /\ LET r == create_vector_store(embedder, documents, fault)
       IN  /\ embedder' = r.self
           /\ last' = [op |-> "create_vector_store", raised |-> r.raised, value |-> r.value]
    /\ UNCHANGED <<pdf_docs, vector_stores, current_pdf, preview_text, disk, saved_as>>

\* embedder.save_vector_store(pdf_name)
SaveVectorStore(pdf_name, fault) ==
    /\ last = NoCall
    /\ embedder.constructed
    /\ LET r == save_vector_store(embedder, disk, pdf_name, fault)
       IN  /\ disk' = r.files
           /\ saved_as' = IF r.raised THEN saved_as
                          ELSE Put(saved_as, pdf_name, embedder.vector_store)
           /\ last' = [op |-> "save_vector_store", pdf_name |-> pdf_name, raised |-> r.raised]
    /\ UNCHANGED <<pdf_docs, vector_stores, current_pdf, preview_text, embedder>>

\* embedder.load_vector_store(pdf_name)
LoadVectorStore(pdf_name) ==
    /\ last = NoCall
    /\ embedder.constructed
    /\ LET r == load_vector_store(embedder, disk, pdf_name)
       IN  /\ embedder' = r.self
           /\ last' = [op |-> "load_vector_store", pdf_name |-> pdf_name, value |-> r.value]
    /\ UNCHANGED <<pdf_docs, vector_stores, current_pdf, preview_text, disk, saved_as>>

EmbedderNext ==
    \/ \E chunk_size \in 1..MaxChunkSize, chunk_overlap \in 0..MaxChunkSize,
          vector_store_type \in VectorStoreTypes :
           Construct(chunk_size, chunk_overlap, vector_store_type)
    \/ \E documents \in SampleDocuments : ProcessDocuments(documents)
    \/ \E documents \in SampleDocuments, fault \in {"none", "embed"} :
           CreateVectorStore(documents, fault)
    \/ \E pdf_name \in DocNames, fault \in {"none", "save"} : SaveVectorStore(pdf_name, fault)
    \/ \E pdf_name \in DocNames : LoadVectorStore(pdf_name)
    \/ Return

EmbedderSpec == EmbedderInit /\ [][EmbedderNext]_vars

-----------------------------------------------------------------------------
(* The storage paths of save_vector_store and load_vector_store, computed for  *)
(* every name.                                                                *)

SafeNames(pdf_name) ==
    /\ last = NoCall
    /\ last' = [op |-> "safe_name", pdf_name |-> pdf_name,
                save_name |-> SaveSafeName(pdf_name), save_path |-> SavePath(pdf_name),
                load_name |-> LoadSafeName(pdf_name), load_path |-> LoadPath(pdf_name)]
    /\ UNCHANGED <<pdf_docs, vector_stores, current_pdf, preview_text, embedder, disk, saved_as>>

PathNext ==
    \/ \E pdf_name \in AllNames : SafeNames(pdf_name)
    \/ Return

PathSpec == Init /\ [][PathNext]_vars

-----------------------------------------------------------------------------
(* Properties *)

QueryOps == {"process_query", "generate_summary", "generate_notes"}

ErrPrefix(op) ==
    CASE op = "process_query" -> ErrQuery
      [] op = "generate_summary" -> ErrSummary
      [] op = "generate_notes" -> ErrNotes

HasPrefix(text, prefix) == Len(text) >= Len(prefix) /\ SubSeq(text, 1, Len(prefix)) = prefix

Range(f) == {f[i] : i \in DOMAIN f}

\* C1: a query operation called with a name that has no entry in vector_stores
\* returns "Please select a PDF first.", builds no retriever (no retrieval is
\* issued), invokes no chain and raises nothing.
C1_NoIndexGuidance ==
    (last.op \in QueryOps /\ ~last.had_index) =>
        /\ last.call.value = Guidance
        /\ last.call.retrievals = <<>>
        /\ ~last.call.invoked
        /\ ~last.call.generated
        /\ ~last.call.raised

\* C1 happens: each of the three operations has been called on a name without
\* an index; here notes, on a document that was uploaded but could not be indexed.
C1_Witness ==
    /\ last.op = "generate_notes"
    /\ ~last.had_index
    /\ last.pdf_name \in DOMAIN pdf_docs
    /\ last.call.value = Guidance

\* C2: a query operation on a document that has an index, whose retrieval or
\* generation fails, raises nothing and returns its own prefix followed by
\* str(e), with nothing generated in it; when nothing fails it returns the
\* backend's text as it is.
C2_FailureCaught ==
    (last.op \in QueryOps /\ last.had_index) =>
        /\ ~last.call.raised
        /\ last.env.stage # "ok" =>
              /\ last.call.value = ErrPrefix(last.op) \o last.env.text
              /\ HasPrefix(last.call.value, ErrPrefix(last.op))
              /\ ~last.call.generated
        /\ last.env.stage = "ok" =>
              /\ last.call.value = last.env.text
              /\ last.call.generated

\* C2 happens: the backend timed out under process_query on an indexed document.
C2_Witness ==
    /\ last.op = "process_query"
    /\ last.had_index
    /\ last.env = [stage |-> "generation", text |-> <<"timeout">>]
    /\ last.call.value = <<"Error processing query: ", "timeout">>
    /\ ~last.call.raised

\* C3: load_pdfs goes through the whole batch whatever fails in it: every file
\* tried (its name not registered before the batch, nor earlier in it) that is
\* sound is registered with its pages and its index and reported as a success,
\* every file tried that is not sound is reported as an error, an error is
\* reported only for a name that a file that is not sound has, and every name
\* that had an index before the batch has one after it.
C3_BatchIsolation ==
    last.op = "load_pdfs" =>
        LET files == last.files
            Tried(i) == /\ files[i].name \notin last.before
                        /\ \A j \in 1..(i - 1) : files[j].name # files[i].name
        IN  /\ \A i \in 1..Len(files) : (Tried(i) /\ files[i].sound) =>
                    /\ files[i].name \in DOMAIN pdf_docs
                    /\ files[i].name \in DOMAIN vector_stores
                    /\ [kind |-> "success", name |-> files[i].name] \in Range(last.reports)
            /\ \A i \in 1..Len(files) : (Tried(i) /\ ~files[i].sound) =>
                    [kind |-> "error", name |-> files[i].name] \in Range(last.reports)
            /\ \A r \in Range(last.reports) : r.kind = "error" =>
                    \E i \in 1..Len(files) : files[i].name = r.name /\ ~files[i].sound
            /\ last.indexed \subseteq DOMAIN vector_stores

\* C3 happens: a batch of two new documents whose first fails and whose second
\* is ingested.
C3_Witness ==
    /\ last.op = "load_pdfs"
    /\ Len(last.files) = 2
    /\ last.files[1].name # last.files[2].name
    /\ {last.files[1].name, last.files[2].name} \cap last.before = {}
    /\ ~last.files[1].sound
    /\ last.files[2].sound
    /\ last.reports = <<[kind |-> "error", name |-> last.files[1].name],
                        [kind |-> "success", name |-> last.files[2].name]>>
    /\ last.files[2].name \in DOMAIN vector_stores

\* C4: once save_vector_store(name) has returned, load_vector_store(name) gives
\* back an index, with the chunks of the index saved under that name, in order.
C4_RoundTrip ==
    (last.op = "load_vector_store" /\ last.pdf_name \in DOMAIN saved_as) =>
        /\ last.value # NoStore
        /\ last.value.docs = saved_as[last.pdf_name].docs

\* C5: the key of a name has the name's length, keeps each alphanumeric
\* character where it is and has "_" everywhere else; save and load compute the
\* same key; the key holds no "/" and no "."; and the path is the key directly
\* under "embeddings".
C5_SafeName ==
    last.op = "safe_name" =>
        LET name == last.pdf_name
            key == last.save_name
        IN  /\ Len(key) = Len(name)
            /\ \A i \in 1..Len(name) :
                   key[i] = (IF name[i] \in {"a", "Z", "1"} THEN name[i] ELSE "_")
            /\ last.load_name = key
            /\ \A i \in 1..Len(key) : key[i] \notin {"/", "."}
            /\ last.save_path = <<"embeddings", "/">> \o key
            /\ last.load_path = last.save_path

\* C5 happens: the paths of the name "./." have been computed.
C5_Witness ==
    /\ last.op = "safe_name"
    /\ last.pdf_name = <<".", "/", ".">>
    /\ last.save_path = <<"embeddings", "/", "_", "_", "_">>

\* C6: a DocumentEmbedder asked for with chunk_overlap >= chunk_size is not
\* constructed, and no chunk is produced by an embedder with such a configuration.
C6_FailFast ==
    /\ (last.op = "__init__" /\ last.chunk_overlap >= last.chunk_size) => last.raised
    /\ (last.op = "process_documents" /\ embedder.chunk_overlap >= embedder.chunk_size) =>
           last.chunks = <<>>

\* C7: every retrieval of a query operation is an mmr search on the index
\* registered for the requested name, built from that document's pages, with
\* k = 5 for process_query, 10 for generate_summary and 15 for generate_notes.
C7_Retrieval ==
    last.op \in QueryOps =>
        \A r \in Range(last.call.retrievals) :
            /\ r.search_type = "mmr"
            /\ r.k = (CASE last.op = "process_query" -> 5
                        [] last.op = "generate_summary" -> 10
                        [] last.op = "generate_notes" -> 15)
            /\ last.pdf_name \in DOMAIN vector_stores
            /\ r.vectorstore = vector_stores[last.pdf_name]
            /\ \A c \in Range(r.vectorstore.docs) : c.metadata.source = last.pdf_name

\* C7 happens: each flow has retrieved; here the notes, with their one retrieval.
C7_Witness ==
    /\ last.op = "generate_notes"
    /\ last.had_index
    /\ Len(last.call.retrievals) = 1
    /\ last.call.retrievals[1].k = 15
    /\ last.call.retrievals[1].search_type = "mmr"

\* C8: the retriever is queried with the text "summarize" by generate_summary,
\* with the text "generate notes" by generate_notes, and with the user's
\* question, unchanged, by process_query.
C8_FixedProbe ==
    last.op \in QueryOps =>
        \A r \in Range(last.call.retrievals) :
            r.query = (CASE last.op = "process_query" -> Str(last.query)
                         [] last.op = "generate_summary" -> Str(<<"summarize">>)
                         [] last.op = "generate_notes" -> Str(<<"generate notes">>))

InsufficientContent == <<"insufficient content">>

\* C9: generate_summary on an ingested document none of whose pages has text
\* returns an "insufficient content" result or its generation error.
C9_EmptyDocument ==
    (/\ last.op = "generate_summary"
     /\ last.pdf_name \in DOMAIN pdf_docs
     /\ \A p \in Range(pdf_docs[last.pdf_name]) : p.page_content = <<>>) =>
        \/ last.call.value = InsufficientContent
        \/ HasPrefix(last.call.value, ErrSummary)

\* C10: load_pdfs on a batch without the name A leaves A's pages and A's index
\* as they were, and what load_vector_store(A) gives when A's index was saved.
C10_Frame ==
    [][last'.op = "load_pdfs" =>
        \A A \in DocNames :
            (/\ A \in DOMAIN vector_stores
             /\ A \in DOMAIN saved_as
             /\ \A i \in 1..Len(last'.files) : last'.files[i].name # A) =>
                /\ A \in DOMAIN pdf_docs' /\ pdf_docs'[A] = pdf_docs[A]
                /\ A \in DOMAIN vector_stores' /\ vector_stores'[A] = vector_stores[A]
                /\ load_vector_store(embedder', disk', A).value
                       = load_vector_store(embedder, disk, A).value]_vars

\* C11: the names that have stored pages are exactly the names that have a
\* vector index, after any sequence of upload batches.
C11_RegistryConsistent ==
    DOMAIN pdf_docs = DOMAIN vector_stores

\* C12: after every step the selected document is None or a name in pdf_docs;
\* update_preview of a name in pdf_docs selects it and shows its preview, and of
\* any other name leaves the selection and the preview text as they were; the
\* lookup of the selection among the options of the select box never raises.
C12_Selection ==
    [][/\ current_pdf' = None \/ current_pdf' \in DOMAIN pdf_docs'
       /\ last'.op = "update_preview" =>
            IF last'.pdf_name \in DOMAIN pdf_docs
            THEN /\ current_pdf' = last'.pdf_name
                 /\ preview_text' = Preview(pdf_docs[last'.pdf_name])
            ELSE UNCHANGED <<current_pdf, preview_text>>
       /\ last'.op = "select_pdf" =>
            /\ ~last'.raised
            /\ current_pdf' = last'.selected_pdf]_vars

\* update_preview was called with a name that is not in pdf_docs while another
\* document was selected.
C12_Witness ==
    /\ last.op = "update_preview"
    /\ last.pdf_name \notin DOMAIN pdf_docs
    /\ current_pdf # None
    /\ preview_text # <<>>

\* The text of each page of a stored document.
PageTexts(documents) ==
    [i \in 1..Len(documents) |-> documents[i].page_content]

\* The pages load_pdfs reads from the i-th file of the batch recorded in call.
PagesOf(call, i) ==
    load_pdf([name |-> call.files[i].name,
              content |-> [parsable |-> TRUE, texts |-> call.files[i].texts]]).documents

\* C13 as stated: after load_pdfs of a sound file whose name was already in
\* pdf_docs and indexed, the stored pages, the registered index and the persisted index of
\* that name are those of the file just uploaded.
C13_LastWriterWins ==
    last.op = "load_pdfs" =>
        \A i \in 1..Len(last.files) :
            LET name == last.files[i].name
                index == create_vector_store(SessionEmbedder, PagesOf(last, i), "none").value
            IN  (name \in last.before /\ name \in last.indexed /\ last.files[i].sound) =>
                    /\ pdf_docs[name] = PagesOf(last, i)
                    /\ name \in DOMAIN vector_stores /\ vector_stores[name] = index
                    /\ load_vector_store(embedder, disk, name).value = index

\* C13: load_pdfs passes over a file whose name is already in pdf_docs: the
\* stored pages and the registered index of that name (or its absence) stay
\* those of the earlier upload, no message is shown for the file, and a batch
\* made only of such files changes nothing, the persisted indexes included.
C13_FirstWriterWins ==
    [][last'.op = "load_pdfs" =>
        /\ \A i \in 1..Len(last'.files) :
              LET name == last'.files[i].name
              IN  name \in DOMAIN pdf_docs =>
                    /\ pdf_docs'[name] = pdf_docs[name]
                    /\ name \in DOMAIN vector_stores' <=> name \in DOMAIN vector_stores
                    /\ name \in DOMAIN vector_stores =>
                          vector_stores'[name] = vector_stores[name]
                    /\ \A r \in Range(last'.reports) : r.name # name
        /\ (\A i \in 1..Len(last'.files) : last'.files[i].name \in DOMAIN pdf_docs) =>
              /\ last'.reports = <<>>
              /\ UNCHANGED <<pdf_docs, vector_stores, embedder, disk, saved_as>>]_vars

\* A sound file with other pages was uploaded under a name that is ingested,
\* indexed and saved.
C13_Witness ==
    /\ last.op = "load_pdfs"
    /\ \E i \in 1..Len(last.files) :
          LET name == last.files[i].name
          IN  /\ name \in last.before
              /\ last.files[i].sound
              /\ name \in DOMAIN vector_stores
              /\ name \in DOMAIN saved_as
              /\ PageTexts(pdf_docs[name]) # last.files[i].texts

====
